---- MODULE Spec2Model ----
(***************************************************************************)
(* Model of scripts/rate_limits.py: the epoch-aware projection of the      *)
(* bridging buffer caps and rate limits of the Superchain networks.        *)
(*                                                                         *)
(* Token quantities are Python ints read from chain; every quantity that   *)
(* goes through "/" or a margin becomes a Python float.  Quantities are    *)
(* modelled as exact rationals [n, d] (d > 0, lowest terms): the rounding  *)
(* of IEEE doubles is not modelled.                                        *)
(***************************************************************************)
EXTENDS Integers, Sequences, FiniteSets, TLC

\* ------------------------------------------------------------------------
\* Bounds of the model
\* ------------------------------------------------------------------------
MaxRuns == 2
MaxTicks == 1

\* ------------------------------------------------------------------------
\* Program constants
\* ------------------------------------------------------------------------
WEEK == 604800
ReplenishMargin == 60 * 10
HubId == 10

ChainOrder == <<34443, 1135, 252>>
ChainIds == {ChainOrder[k] : k \in 1..Len(ChainOrder)}
ChainName == (34443 :> "Mode") @@ (1135 :> "Lisk") @@ (252 :> "Fraxtal")

\* ------------------------------------------------------------------------
\* Exact rational arithmetic (Python "/", "*", "+", "-", min, ">")
\* ------------------------------------------------------------------------
Abs(x) == IF x < 0 THEN -x ELSE x

RECURSIVE GCD(_, _)
GCD(a, b) == IF b = 0 THEN a ELSE GCD(b, a % b)

Norm(n, d) ==
    LET g == GCD(Abs(n), d)
    IN  [n |-> n \div g, d |-> d \div g]

R(i) == [n |-> i, d |-> 1]

RAdd(a, b) ==
    LET g == GCD(a.d, b.d)
    IN  Norm(a.n * (b.d \div g) + b.n * (a.d \div g), (a.d \div g) * b.d)

RNeg(a) == [n |-> 0 - a.n, d |-> a.d]

RSub(a, b) == RAdd(a, RNeg(b))

RMul(a, b) ==
    LET g1 == GCD(Abs(a.n), b.d)
        g2 == GCD(Abs(b.n), a.d)
    IN  IF a.n = 0 \/ b.n = 0 THEN R(0)
        ELSE Norm((a.n \div g1) * (b.n \div g2), (a.d \div g2) * (b.d \div g1))

\* the outcome of a division whose divisor is zero: Python raises
ZeroDivisionError == [n |-> 0, d |-> 0]

\* a / b for b >= 0
RDiv(a, b) == IF b.n = 0 THEN ZeroDivisionError ELSE RMul(a, [n |-> b.d, d |-> b.n])

RLt(a, b) ==
    LET g == GCD(a.d, b.d)
    IN  a.n * (b.d \div g) < b.n * (a.d \div g)

RLe(a, b) == ~RLt(b, a)

RMin(a, b) == IF RLt(b, a) THEN b ELSE a

BUFFER_MARGIN == [n |-> 6, d |-> 5]
RPS_MARGIN == [n |-> 11, d |-> 10]

\* ------------------------------------------------------------------------
\* On-chain inputs
\* ------------------------------------------------------------------------
Pools == {"p1", "p2"}
PoolLists == {<<>>, <<"p1">>}
ClPoolLists == {<<>>, <<"p2">>}
HomeIds == [p1 : {34443}, p2 : {34443, 1135, 999}]
DefaultHome == [p1 |-> 34443, p2 |-> 1135]
Weights == [p1 : {1, 2}, p2 : {1}]
TotalSupplies == {0, 4}
WeeklyValues == {10}
\* offsets in the epoch of the first clock read; a new block reaches the next second
Offsets == {0, WEEK - ReplenishMargin - 1, WEEK - 1}
Unconfigured ==
    [bufferCap |-> 0, rateLimitPerSecond |-> 0, mintingCurrentLimit |-> 0, midPoint |-> 0]
BufferProfiles ==
    { Unconfigured,
      [bufferCap |-> 10, rateLimitPerSecond |-> 0, mintingCurrentLimit |-> 4, midPoint |-> 5],
      [bufferCap |-> 20, rateLimitPerSecond |-> 1, mintingCurrentLimit |-> 0, midPoint |-> 10] }
\* Fraxtal, which the factories list no pool of, has an unconfigured module
BufferStates == {f \in [ChainIds -> BufferProfiles] : f[252] = Unconfigured}
HubProfiles ==
    { [bufferCap |-> 4,  burningCurrentLimit |-> 4],
      [bufferCap |-> 30, burningCurrentLimit |-> 0] }

\* ------------------------------------------------------------------------
\* State
\* ------------------------------------------------------------------------
VARIABLES
    \* chain state read by the script
    rootPools, clRootPools, poolChainid, voterWeights, xerc20, opXerc20,
    veTotalSupply, minterWeekly, blockTimestamp, ticks,
    \* module-level state of the script
    chains,
    \* main(): position, locals and result
    pc, run, error, total_voting_superchain, total_voting_weight, weekly,
    new_chain_limits, op_buffer_delta, op_expected_emissions, idx, iter,
    \* what a run did: per-network locals, warnings printed, hub reads made
    trace, hubTrace, warned, hubReads, firstResult

inputs == <<rootPools, clRootPools, poolChainid, voterWeights, xerc20, opXerc20,
            veTotalSupply, minterWeekly>>
locals == <<total_voting_superchain, total_voting_weight, weekly,
            new_chain_limits, op_buffer_delta, op_expected_emissions, idx, iter>>
ghost == <<trace, hubTrace, warned, hubReads>>
vars == <<inputs, blockTimestamp, ticks, chains, pc, run, error, locals, ghost, firstResult>>

Range(seq) == {seq[k] : k \in 1..Len(seq)}
EmptyMap == [x \in {} |-> x]
Put(m, k, v) == [x \in DOMAIN m \cup {k} |-> IF x = k THEN v ELSE m[x]]
NoIter == [chain |-> 0]

\* utils.types.ChainData(name, rpc_url): a record with no pools and zeroed numbers
ChainData(name) ==
    [name |-> name, pools |-> <<>>, total_voting_weight |-> 0,
     existing_buffer_cap |-> 0, existing_rate_limit |-> 0, current_limit |-> 0,
     existing_midpoint |-> 0, expected_emissions |-> R(0)]

NewLimitData(name, cap, rps, temp) ==
    [name |-> name, recommended_buffer_cap |-> cap, recommended_rate_limit |-> rps,
     temporary_rate_limit |-> temp]

InitLocals ==
    /\ total_voting_superchain = 0
    /\ total_voting_weight = 0
    /\ weekly = 0
    /\ new_chain_limits = EmptyMap
    /\ op_buffer_delta = R(0)
    /\ op_expected_emissions = R(0)
    /\ idx = 1
    /\ iter = NoIter

Init ==
    /\ rootPools \in PoolLists
    /\ clRootPools \in ClPoolLists
    /\ poolChainid \in HomeIds
    /\ voterWeights \in Weights
    \* a pool no factory lists is never read: one representative
    /\ \A p \in Pools \ Range(rootPools \o clRootPools) :
            poolChainid[p] = DefaultHome[p] /\ voterWeights[p] = 1
    /\ xerc20 \in BufferStates
    /\ opXerc20 \in HubProfiles
    /\ veTotalSupply \in TotalSupplies
    /\ minterWeekly \in WeeklyValues
    /\ blockTimestamp \in {WEEK + o : o \in Offsets}
    /\ ticks = 0
    /\ chains = [c \in ChainIds |-> ChainData(ChainName[c])]
    /\ pc = "fetch_pools"
    /\ run = 1
    /\ error = "none"
    /\ InitLocals
    /\ trace = EmptyMap
    /\ hubTrace = EmptyMap
    /\ warned = {}
    /\ hubReads = 0
    /\ firstResult = EmptyMap

\* ------------------------------------------------------------------------
\* fetch_pools
\* ------------------------------------------------------------------------
\* a lookup that accepts any id instead of raising KeyError
AnyChain(chainid) == TRUE

\* line 43: chains[chainid] finds the key
KnownChain(chainid) == chainid \in ChainIds

\* index of the first pool whose chainid is not a key of chains, 0 if none
RECURSIVE FirstUnknown(_, _)
FirstUnknown(ps, k) ==
    IF k > Len(ps) THEN 0
    ELSE IF ~KnownChain(poolChainid[ps[k]]) THEN k
    ELSE FirstUnknown(ps, k + 1)

PoolData(address) == [address |-> address, voting_power |-> 0]

\* chains after "chains[chainid].pools.append(PoolData(pool))" for ps[1..upto]
RECURSIVE AppendPools(_, _, _, _)
AppendPools(cs, ps, k, upto) ==
    IF k > upto THEN cs
    ELSE AppendPools(
            [cs EXCEPT ![poolChainid[ps[k]]].pools = Append(@, PoolData(ps[k]))],
            ps, k + 1, upto)

FetchPools ==
    /\ pc = "fetch_pools"
    /\ LET root_pools == rootPools \o clRootPools
           bad == FirstUnknown(root_pools, 1)
       IN  IF bad = 0
           THEN /\ chains' = AppendPools(chains, root_pools, 1, Len(root_pools))
                /\ pc' = "fetch_voting_weights"
                /\ error' = error
           ELSE /\ chains' = AppendPools(chains, root_pools, 1, bad - 1)
                /\ pc' = "aborted"
                /\ error' = "KeyError"
    /\ UNCHANGED <<inputs, blockTimestamp, ticks, run, locals, ghost, firstResult>>

\* ------------------------------------------------------------------------
\* fetch_voting_weights
\* ------------------------------------------------------------------------
RECURSIVE SumPower(_, _)
SumPower(pools, k) ==
    IF k > Len(pools) THEN 0 ELSE voterWeights[pools[k].address] + SumPower(pools, k + 1)

\* "chain_data.total_voting_weight += pool.voting_power" over the chain's pools
AccumulateWeight(chain_data) ==
    [chain_data EXCEPT
        !.pools = [k \in 1..Len(@) |->
                    [address |-> @[k].address, voting_power |-> voterWeights[@[k].address]]],
        !.total_voting_weight = @ + SumPower(chain_data.pools, 1)]

RECURSIVE SumWeights(_, _)
SumWeights(cs, k) ==
    IF k > Len(ChainOrder) THEN 0
    ELSE cs[ChainOrder[k]].total_voting_weight + SumWeights(cs, k + 1)

FetchVotingWeights ==
    /\ pc = "fetch_voting_weights"
    /\ chains' = [c \in ChainIds |-> AccumulateWeight(chains[c])]
    /\ total_voting_superchain' = SumWeights(chains', 1)
    /\ pc' = "fetch_existing_buffers"
    /\ UNCHANGED <<inputs, blockTimestamp, ticks, run, error, total_voting_weight, weekly,
                   new_chain_limits, op_buffer_delta, op_expected_emissions, idx, iter,
                   ghost, firstResult>>

\* ------------------------------------------------------------------------
\* fetch_existing_buffers
\* ------------------------------------------------------------------------
FetchExistingBuffers ==
    /\ pc = "fetch_existing_buffers"
    /\ chains' = [c \in ChainIds |->
                    [chains[c] EXCEPT
                        !.existing_buffer_cap = xerc20[c].bufferCap,
                        !.existing_rate_limit = xerc20[c].rateLimitPerSecond,
                        !.current_limit = xerc20[c].mintingCurrentLimit,
                        !.existing_midpoint = xerc20[c].midPoint]]
    /\ pc' = "read_totals"
    /\ UNCHANGED <<inputs, blockTimestamp, ticks, run, error, locals, ghost, firstResult>>

\* ------------------------------------------------------------------------
\* main, lines 80-91: totals and the empty result
\* ------------------------------------------------------------------------
ReadTotals ==
    /\ pc = "read_totals"
    /\ total_voting_weight' = veTotalSupply
    /\ weekly' = minterWeekly
    /\ new_chain_limits' = EmptyMap
    /\ op_buffer_delta' = R(0)
    /\ op_expected_emissions' = R(0)
    /\ idx' = 1
    /\ pc' = "loop"
    /\ UNCHANGED <<inputs, blockTimestamp, ticks, chains, run, error,
                   total_voting_superchain, iter, ghost, firstResult>>

\* ------------------------------------------------------------------------
\* Epoch windows
\* ------------------------------------------------------------------------
EpochNext(timestamp) == timestamp - (timestamp % WEEK) + WEEK

\* lines 112-113: the primary window
TimeToNextEpoch(timestamp) == EpochNext(timestamp) - timestamp

\* "<=" in place of "<": no fallback when timestamp = replenish_ts
ContingencyWindowInclusive(timestamp) ==
    LET epoch_next == EpochNext(timestamp)
        replenish_ts == epoch_next - ReplenishMargin
    IN  IF timestamp <= replenish_ts THEN replenish_ts - timestamp
        ELSE epoch_next - timestamp

\* lines 136-141 and 180-183: the window of the contingency check
ContingencyWindow(timestamp) ==
    LET epoch_next == EpochNext(timestamp)
        replenish_ts == epoch_next - ReplenishMargin
    IN  IF timestamp < replenish_ts THEN replenish_ts - timestamp
        ELSE epoch_next - timestamp

\* ------------------------------------------------------------------------
\* main, lines 93-133: one network, estimates and primary check
\* ------------------------------------------------------------------------
\* a share that is 0 when the total is 0 instead of raising
WeightsPercentageOrZero(chain_weight, total) ==
    IF total = 0 THEN R(0) ELSE RDiv(R(chain_weight), R(total))

\* line 95
WeightsPercentage(chain_weight, total) == RDiv(R(chain_weight), R(total))

MinEmissions(w, weights_percentage) == RMul(R(w), weights_percentage)

MinBufferCap(min_emissions) == RMul(min_emissions, R(2))

ExpectedEmissions(min_emissions, margin) == RMul(min_emissions, margin)

\* the margin divided out instead of multiplied in
AdjustedBufferCapDivided(min_buffer_cap, margin) == RDiv(min_buffer_cap, margin)

AdjustedBufferCap(min_buffer_cap, margin) == RMul(min_buffer_cap, margin)

AdjustedRps(min_buffer_cap) == RMul(RDiv(min_buffer_cap, R(WEEK)), RPS_MARGIN)

\* lines 103-107
BufferDelta(adjusted_buffer_cap, existing_buffer_cap) ==
    IF RLt(R(existing_buffer_cap), adjusted_buffer_cap)
    THEN RSub(adjusted_buffer_cap, R(existing_buffer_cap))
    ELSE R(0)

\* the projected buffer without its ceiling
ExpectedBufferUncapped(current_limit, rate, window, ceiling) ==
    RAdd(R(current_limit), RMul(rate, R(window)))

\* lines 114-117
ReplenishedBuffer(current_limit, rate, window, ceiling) ==
    RMin(RAdd(R(current_limit), RMul(rate, R(window))), ceiling)

\* ">=" in place of ">"
InsufficientOrEqual(expected_emissions, replenished_buffer) ==
    RLe(replenished_buffer, expected_emissions)

\* lines 133, 150, 196
Insufficient(expected_emissions, replenished_buffer) ==
    RLt(replenished_buffer, expected_emissions)

NextChain ==
    /\ idx' = idx + 1
    /\ iter' = NoIter
    /\ pc' = IF idx = Len(ChainOrder) THEN "hub_check" ELSE "loop"

LoopPrimary ==
    /\ pc = "loop"
    /\ LET chain_id == ChainOrder[idx]
           chain_data == chains[chain_id]
           weights_percentage ==
               WeightsPercentage(chain_data.total_voting_weight, total_voting_weight)
       IN  IF weights_percentage = ZeroDivisionError
           THEN \* line 95 raises
                /\ pc' = "aborted"
                /\ error' = "ZeroDivisionError"
                /\ UNCHANGED <<chains, new_chain_limits, op_buffer_delta, op_expected_emissions,
                               idx, iter, trace>>
           ELSE LET min_emissions == MinEmissions(weekly, weights_percentage)
                    min_buffer_cap == MinBufferCap(min_emissions)
                    expected_emissions == ExpectedEmissions(min_emissions, BUFFER_MARGIN)
                    adjusted_buffer_cap == AdjustedBufferCap(min_buffer_cap, BUFFER_MARGIN)
                    adjusted_rps == AdjustedRps(min_buffer_cap)
                    timestamp == blockTimestamp
                    time_to_next_epoch == TimeToNextEpoch(timestamp)
                    replenished_buffer ==
                        ReplenishedBuffer(chain_data.current_limit,
                                          R(chain_data.existing_rate_limit),
                                          time_to_next_epoch,
                                          R(chain_data.existing_midpoint))
                IN  /\ chains' = [chains EXCEPT ![chain_id].expected_emissions = expected_emissions]
                    /\ op_buffer_delta' =
                          RAdd(op_buffer_delta,
                               BufferDelta(adjusted_buffer_cap, chain_data.existing_buffer_cap))
                    /\ op_expected_emissions' = RAdd(op_expected_emissions, expected_emissions)
                    /\ trace' = Put(trace, chain_id,
                                    [timestamp |-> timestamp,
                                     replenished_buffer |-> replenished_buffer,
                                     contingency |-> FALSE])
                    /\ error' = error
                    /\ new_chain_limits' = new_chain_limits
                    /\ IF Insufficient(expected_emissions, replenished_buffer)
                       THEN /\ pc' = "contingency"
                            /\ idx' = idx
                            /\ iter' = [chain |-> chain_id,
                                        adjusted_buffer_cap |-> adjusted_buffer_cap,
                                        adjusted_rps |-> adjusted_rps]
                       ELSE NextChain
    /\ UNCHANGED <<inputs, blockTimestamp, ticks, run, total_voting_superchain,
                   total_voting_weight, weekly, hubTrace, warned, hubReads, firstResult>>

\* ------------------------------------------------------------------------
\* main, lines 134-169: contingency check of a network
\* ------------------------------------------------------------------------
\* "//" in place of "/": the per-second rate floored
TemporaryRpsFloorDiv(adjusted_buffer_cap, current_limit, window) ==
    LET buffer_delta == RSub(RDiv(adjusted_buffer_cap, R(2)), R(current_limit))
    IN  IF window = 0 THEN ZeroDivisionError
        ELSE RMul(R(buffer_delta.n \div (buffer_delta.d * window)), RPS_MARGIN)

\* lines 151-154 and 197-200
TemporaryRps(adjusted_buffer_cap, current_limit, window) ==
    LET buffer_delta == RSub(RDiv(adjusted_buffer_cap, R(2)), R(current_limit))
        per_second == RDiv(buffer_delta, R(window))
    IN  IF per_second = ZeroDivisionError THEN ZeroDivisionError
        ELSE RMul(per_second, RPS_MARGIN)

LoopContingency ==
    /\ pc = "contingency"
    /\ LET chain_id == iter.chain
           chain_data == chains[chain_id]
           timestamp == blockTimestamp
           time_to_next_epoch == ContingencyWindow(timestamp)
           replenished_buffer ==
               ReplenishedBuffer(chain_data.current_limit, iter.adjusted_rps,
                                 time_to_next_epoch,
                                 RDiv(iter.adjusted_buffer_cap, R(2)))
           temporary_rps ==
               IF Insufficient(chain_data.expected_emissions, replenished_buffer)
               THEN TemporaryRps(iter.adjusted_buffer_cap, chain_data.current_limit,
                                 time_to_next_epoch)
               ELSE R(0)
       IN  /\ trace' = [trace EXCEPT ![chain_id] =
                           [timestamp |-> @.timestamp,
                            replenished_buffer |-> @.replenished_buffer,
                            contingency |-> TRUE,
                            timestamp2 |-> timestamp,
                            window |-> time_to_next_epoch,
                            replenished_buffer2 |-> replenished_buffer]]
           /\ IF temporary_rps = ZeroDivisionError
              THEN /\ pc' = "aborted"
                   /\ error' = "ZeroDivisionError"
                   /\ UNCHANGED <<new_chain_limits, warned, idx, iter>>
              ELSE /\ new_chain_limits' =
                         Put(new_chain_limits, chain_id,
                             NewLimitData(chain_data.name, iter.adjusted_buffer_cap,
                                          iter.adjusted_rps, temporary_rps))
                   /\ warned' = warned \cup {chain_id}
                   /\ error' = error
                   /\ NextChain
    /\ UNCHANGED <<inputs, blockTimestamp, ticks, chains, run, total_voting_superchain,
                   total_voting_weight, weekly, op_buffer_delta, op_expected_emissions,
                   hubTrace, hubReads, firstResult>>

\* ------------------------------------------------------------------------
\* main, lines 173-213: the hub (Optimism) and the return
\* ------------------------------------------------------------------------
\* ">=" in place of ">"
HubAlways(buffer_delta_total) == RLe(R(0), buffer_delta_total)

\* line 173
HubNeeded(buffer_delta_total) == RLt(R(0), buffer_delta_total)

\* line 185
HubAdjustedBufferCap(buffer_delta_total, op_buffer_cap) ==
    RAdd(buffer_delta_total, R(op_buffer_cap))

\* lines 186-187
HubAdjustedRps(adjusted_buffer_cap, margin) ==
    RMul(RDiv(RDiv(adjusted_buffer_cap, margin), R(WEEK)), RPS_MARGIN)

HubSkip ==
    /\ pc = "hub_check"
    /\ ~HubNeeded(op_buffer_delta)
    /\ pc' = "done"
    /\ UNCHANGED <<inputs, blockTimestamp, ticks, chains, run, error, locals, ghost,
                   firstResult>>

HubRecalc ==
    /\ pc = "hub_check"
    /\ HubNeeded(op_buffer_delta)
    /\ LET op_buffer_cap == opXerc20.bufferCap
           op_current_limit == opXerc20.burningCurrentLimit
           timestamp == blockTimestamp
           time_to_next_epoch == ContingencyWindow(timestamp)
           adjusted_buffer_cap == HubAdjustedBufferCap(op_buffer_delta, op_buffer_cap)
           adjusted_rps == HubAdjustedRps(adjusted_buffer_cap, BUFFER_MARGIN)
           replenished_buffer ==
               ReplenishedBuffer(op_current_limit, adjusted_rps, time_to_next_epoch,
                                 RDiv(adjusted_buffer_cap, R(2)))
           temporary_rps ==
               IF Insufficient(op_expected_emissions, replenished_buffer)
               THEN TemporaryRps(adjusted_buffer_cap, op_current_limit, time_to_next_epoch)
               ELSE R(0)
       IN  /\ hubReads' = hubReads + 4
           /\ hubTrace' = Put(hubTrace, HubId,
                              [timestamp |-> timestamp,
                               window |-> time_to_next_epoch,
                               adjusted_buffer_cap |-> adjusted_buffer_cap,
                               replenished_buffer |-> replenished_buffer])
           /\ IF temporary_rps = ZeroDivisionError
              THEN /\ pc' = "aborted"
                   /\ error' = "ZeroDivisionError"
                   /\ UNCHANGED <<new_chain_limits, warned>>
              ELSE /\ new_chain_limits' =
                         Put(new_chain_limits, HubId,
                             NewLimitData("Optimism", adjusted_buffer_cap, adjusted_rps,
                                          temporary_rps))
                   /\ warned' = warned \cup {HubId}
                   /\ error' = error
                   /\ pc' = "done"
    /\ UNCHANGED <<inputs, blockTimestamp, ticks, chains, run, total_voting_superchain,
                   total_voting_weight, weekly, op_buffer_delta, op_expected_emissions,
                   idx, iter, trace, firstResult>>

\* ------------------------------------------------------------------------
\* A second call of main() in the same process; the clock
\* ------------------------------------------------------------------------
Rerun ==
    /\ pc = "done"
    /\ run < MaxRuns
    /\ run' = run + 1
    /\ firstResult' = new_chain_limits
    /\ pc' = "fetch_pools"
    /\ total_voting_superchain' = 0
    /\ total_voting_weight' = 0
    /\ weekly' = 0
    /\ new_chain_limits' = EmptyMap
    /\ op_buffer_delta' = R(0)
    /\ op_expected_emissions' = R(0)
    /\ idx' = 1
    /\ iter' = NoIter
    /\ trace' = EmptyMap
    /\ hubTrace' = EmptyMap
    /\ warned' = {}
    /\ hubReads' = 0
    /\ UNCHANGED <<inputs, blockTimestamp, ticks, chains, error>>

\* a new block between two clock reads of the script (lines 111, 135, 179)
Tick ==
    /\ pc \in {"loop", "contingency", "hub_check"}
    /\ ticks < MaxTicks
    /\ ticks' = ticks + 1
    /\ blockTimestamp' = blockTimestamp + 1
    /\ UNCHANGED <<inputs, chains, pc, run, error, locals, ghost, firstResult>>

Next ==
    \/ FetchPools
    \/ FetchVotingWeights
    \/ FetchExistingBuffers
    \/ ReadTotals
    \/ LoopPrimary
    \/ LoopContingency
    \/ HubSkip
    \/ HubRecalc
    \/ Rerun
    \/ Tick

Spec == Init /\ [][Next]_vars

\* ------------------------------------------------------------------------
\* Quantities of the projection, restated from the inputs
\* ------------------------------------------------------------------------
Zero == R(0)
Half(x) == RDiv(x, R(2))
Offset(ts) == ts % WEEK

\* W * v_i / V_total
EmissionsOf(i) ==
    RDiv(R(minterWeekly * chains[i].total_voting_weight), R(veTotalSupply))
ExpectedOf(i) == RMul(EmissionsOf(i), BUFFER_MARGIN)
CapOf(i, margin) == RMul(RMul(EmissionsOf(i), R(2)), margin)
RpsOf(i) == RMul(RDiv(RMul(EmissionsOf(i), R(2)), R(WEEK)), RPS_MARGIN)

PrimaryWindowAt(ts) == WEEK - Offset(ts)
SafeWindowAt(ts) ==
    IF Offset(ts) < WEEK - 600 THEN WEEK - 600 - Offset(ts) ELSE WEEK - Offset(ts)

PrimaryBufferOf(i) ==
    RMin(RAdd(R(xerc20[i].mintingCurrentLimit),
              R(xerc20[i].rateLimitPerSecond * PrimaryWindowAt(trace[i].timestamp))),
         R(xerc20[i].midPoint))

ContingencyBufferOf(i) ==
    RMin(RAdd(R(xerc20[i].mintingCurrentLimit),
              RMul(RpsOf(i), R(SafeWindowAt(trace[i].timestamp2)))),
         Half(CapOf(i, BUFFER_MARGIN)))

RECURSIVE DeltaFrom(_, _)
DeltaFrom(k, margin) ==
    IF k > Len(ChainOrder) THEN Zero
    ELSE LET i == ChainOrder[k]
             over == RSub(CapOf(i, margin), R(xerc20[i].bufferCap))
         IN  RAdd(IF RLt(Zero, over) THEN over ELSE Zero, DeltaFrom(k + 1, margin))

\* sum over the networks of max(0, adjusted_buffer_cap_i - existing_buffer_cap_i)
DeltaTotal(margin) == DeltaFrom(1, margin)

Returned == pc = "done"
AfterLoop == pc \in {"hub_check", "done"}
LoopDone == pc = "hub_check"
Recommended == DOMAIN new_chain_limits
NonNegative(x) == RLe(Zero, x)
\* buffer margins in increasing order: 1.1, 1.2, 1.5
MarginOrder == <<[n |-> 11, d |-> 10], [n |-> 6, d |-> 5], [n |-> 3, d |-> 2]>>
Margins == Range(MarginOrder)

\* ------------------------------------------------------------------------
\* C1: the returned mapping has an entry for a non-hub network exactly when
\* its expected emissions exceed the primary replenished buffer
\* min(current_limit + existing_rate_limit * time_to_next_epoch, midpoint).
\* ------------------------------------------------------------------------
C1_EntryIffPrimaryInsufficient ==
    Returned =>
        \A i \in ChainIds :
            (i \in Recommended) <=> RLt(PrimaryBufferOf(i), ExpectedOf(i))

C1_Witness ==
    /\ Returned
    /\ \E i \in ChainIds : i \in Recommended
    /\ \E i \in ChainIds :
          /\ i \notin Recommended
          /\ RLt(Zero, ExpectedOf(i))
          /\ RLe(ExpectedOf(i), PrimaryBufferOf(i))

\* ------------------------------------------------------------------------
\* C2: a recommended non-hub network has temporary_rate_limit = 0 exactly
\* when the contingency check passes; if both checks fail the temporary
\* rate limit is not zero.
\* ------------------------------------------------------------------------
C2_TemporaryZeroIffContingencyPasses ==
    Returned =>
        \A i \in Recommended \cap ChainIds :
            (new_chain_limits[i].temporary_rate_limit = Zero)
                <=> RLe(ExpectedOf(i), ContingencyBufferOf(i))

C2_Witness ==
    /\ Returned
    /\ \E i \in Recommended \cap ChainIds :
          /\ RLt(ContingencyBufferOf(i), ExpectedOf(i))
          /\ new_chain_limits[i].temporary_rate_limit # Zero
    /\ \E i \in Recommended \cap ChainIds :
          /\ RLe(ExpectedOf(i), ContingencyBufferOf(i))
          /\ new_chain_limits[i].temporary_rate_limit = Zero

\* ------------------------------------------------------------------------
\* C3: with non-negative inputs every recommendation, of a network or of
\* the hub, has a non-negative buffer cap, rate limit and temporary rate
\* limit.
\* ------------------------------------------------------------------------
C3_RecommendationsNonNegative ==
    Returned =>
        \A k \in Recommended :
            /\ NonNegative(new_chain_limits[k].recommended_buffer_cap)
            /\ NonNegative(new_chain_limits[k].recommended_rate_limit)
            /\ NonNegative(new_chain_limits[k].temporary_rate_limit)

\* ------------------------------------------------------------------------
\* C4: the window of the contingency check, of a network and of the hub, is
\* strictly positive, and at now = replenish_ts it is the 600 seconds to the
\* epoch boundary.
\* ------------------------------------------------------------------------
C4_WindowPositive ==
    /\ \A i \in DOMAIN trace :
          trace[i].contingency =>
              /\ trace[i].window > 0
              /\ Offset(trace[i].timestamp2) = WEEK - 600 => trace[i].window = 600
    /\ \A h \in DOMAIN hubTrace :
          /\ hubTrace[h].window > 0
          /\ Offset(hubTrace[h].timestamp) = WEEK - 600 => hubTrace[h].window = 600

C4_Witness ==
    /\ Returned
    /\ \E i \in Recommended \cap ChainIds :
          /\ Offset(trace[i].timestamp2) = WEEK - 600
          /\ trace[i].window = 600
          /\ new_chain_limits[i].temporary_rate_limit # Zero
    /\ HubId \in Recommended
    /\ Offset(hubTrace[HubId].timestamp) = WEEK - 600
    /\ new_chain_limits[HubId].temporary_rate_limit # Zero

\* ------------------------------------------------------------------------
\* C5: if the total buffer delta of the networks is 0 after the loop, the
\* hub is skipped: no hub read is made and the result has no entry for 10.
\* ------------------------------------------------------------------------
C5_HubSkippedWhenNoDelta ==
    (AfterLoop /\ DeltaTotal(BUFFER_MARGIN) = Zero) =>
        /\ op_buffer_delta = Zero
        /\ hubReads = 0
        /\ hubTrace = EmptyMap
        /\ HubId \notin Recommended

C5_Witness ==
    /\ Returned
    /\ DeltaTotal(BUFFER_MARGIN) = Zero
    /\ Recommended # {}
    /\ HubId \notin Recommended
    /\ hubReads = 0

Strangers == {p \in Range(rootPools \o clRootPools) : poolChainid[p] \notin ChainIds}

C7_UnknownNetworkFails ==
    (Strangers # {} /\ pc # "fetch_pools") =>
        /\ pc = "aborted"
        /\ error = "KeyError"
        /\ trace = EmptyMap
        /\ new_chain_limits = EmptyMap
        /\ \A i \in ChainIds : \A k \in 1..Len(chains[i].pools) :
              chains[i].pools[k].address \notin Strangers

C7_Witness ==
    /\ Strangers # {}
    /\ pc = "aborted"
    /\ error = "KeyError"
    /\ \E i \in ChainIds : chains[i].pools # <<>>

\* ------------------------------------------------------------------------
\* C8: a second run in the same process on the same frozen inputs returns
\* the mapping the first run returned.
\* ------------------------------------------------------------------------
C8_SecondRunSameResult ==
    (run = 2 /\ Returned /\ ticks = 0) => new_chain_limits = firstResult

\* ------------------------------------------------------------------------
\* C9: for margins m1 <= m2 the adjusted buffer cap and the adjusted rate
\* of every network do not decrease.  As stated it covers the hub's values
\* of lines 185-187 too.
\* ------------------------------------------------------------------------
NetworkCap(i, margin) ==
    AdjustedBufferCap(
        MinBufferCap(MinEmissions(weekly,
            WeightsPercentage(chains[i].total_voting_weight, total_voting_weight))),
        margin)
NetworkRps(i, margin) ==
    AdjustedRps(
        MinBufferCap(MinEmissions(weekly,
            WeightsPercentage(chains[i].total_voting_weight, total_voting_weight))))

RECURSIVE HubDeltaFrom(_, _)
HubDeltaFrom(k, margin) ==
    IF k > Len(ChainOrder) THEN Zero
    ELSE RAdd(BufferDelta(NetworkCap(ChainOrder[k], margin),
                          chains[ChainOrder[k]].existing_buffer_cap),
              HubDeltaFrom(k + 1, margin))
HubCap(margin) == HubAdjustedBufferCap(HubDeltaFrom(1, margin), opXerc20.bufferCap)

\* row[a] <= row[b] for every a <= b: the values under increasing margins
NonDecreasing(row) ==
    \A a, b \in 1..Len(row) : a <= b => RLe(row[a], row[b])

NetworksMonotone ==
    \A i \in ChainIds :
        LET caps == <<NetworkCap(i, MarginOrder[1]), NetworkCap(i, MarginOrder[2]),
                      NetworkCap(i, MarginOrder[3])>>
            rates == <<NetworkRps(i, MarginOrder[1]), NetworkRps(i, MarginOrder[2]),
                       NetworkRps(i, MarginOrder[3])>>
        IN  NonDecreasing(caps) /\ NonDecreasing(rates)

HubDeltas ==
    <<HubDeltaFrom(1, MarginOrder[1]), HubDeltaFrom(1, MarginOrder[2]),
      HubDeltaFrom(1, MarginOrder[3])>>

HubCapMonotone ==
    LET deltas == HubDeltas
        caps == <<HubAdjustedBufferCap(deltas[1], opXerc20.bufferCap),
                  HubAdjustedBufferCap(deltas[2], opXerc20.bufferCap),
                  HubAdjustedBufferCap(deltas[3], opXerc20.bufferCap)>>
    IN  \A a, b \in 1..3 : (a <= b /\ HubNeeded(deltas[a])) => RLe(caps[a], caps[b])

HubRpsMonotone ==
    LET deltas == HubDeltas
        rates == <<HubAdjustedRps(HubAdjustedBufferCap(deltas[1], opXerc20.bufferCap),
                                  MarginOrder[1]),
                   HubAdjustedRps(HubAdjustedBufferCap(deltas[2], opXerc20.bufferCap),
                                  MarginOrder[2]),
                   HubAdjustedRps(HubAdjustedBufferCap(deltas[3], opXerc20.bufferCap),
                                  MarginOrder[3])>>
    IN  \A a, b \in 1..3 : (a <= b /\ HubNeeded(deltas[a])) => RLe(rates[a], rates[b])

C9_MonotoneInMarginWithHub ==
    LoopDone => (NetworksMonotone /\ HubCapMonotone /\ HubRpsMonotone)

\* C9 as amended: the adjusted buffer cap and rate of every non-hub network,
\* and the adjusted buffer cap of the hub, do not decrease when the margin
\* increases.
C9_MonotoneInMargin ==
    LoopDone => (NetworksMonotone /\ HubCapMonotone)

C9_Witness ==
    /\ Returned
    /\ HubId \in Recommended
    /\ new_chain_limits[HubId].recommended_buffer_cap = HubCap(BUFFER_MARGIN)
    /\ \E i \in Recommended \cap ChainIds :
          /\ new_chain_limits[i].recommended_buffer_cap = NetworkCap(i, BUFFER_MARGIN)
          /\ \E m \in Margins : RLt(NetworkCap(i, BUFFER_MARGIN), NetworkCap(i, m))
    /\ \E m \in Margins : RLt(HubCap(BUFFER_MARGIN), HubCap(m))

\* ------------------------------------------------------------------------
\* C10: the projected usable buffer never exceeds its ceiling: the existing
\* midpoint in the primary check, half the adjusted buffer cap in the
\* contingency check of a network and of the hub.
\* ------------------------------------------------------------------------
C10_BufferUnderCeiling ==
    /\ \A i \in DOMAIN trace :
          /\ RLe(trace[i].replenished_buffer, R(xerc20[i].midPoint))
          /\ trace[i].contingency =>
                RLe(trace[i].replenished_buffer2, Half(CapOf(i, BUFFER_MARGIN)))
    /\ \A h \in DOMAIN hubTrace :
          RLe(hubTrace[h].replenished_buffer,
              Half(RAdd(DeltaTotal(BUFFER_MARGIN), R(opXerc20.bufferCap))))

C10_Witness ==
    /\ Returned
    /\ \E i \in Recommended \cap ChainIds :
          /\ trace[i].replenished_buffer = R(xerc20[i].midPoint)
          /\ RLt(R(xerc20[i].midPoint),
                 R(xerc20[i].mintingCurrentLimit
                   + xerc20[i].rateLimitPerSecond * PrimaryWindowAt(trace[i].timestamp)))
    /\ \E i \in Recommended \cap ChainIds :
          /\ trace[i].replenished_buffer2 = Half(CapOf(i, BUFFER_MARGIN))
          /\ RLt(Zero, trace[i].replenished_buffer2)
    /\ HubId \in Recommended
    /\ hubTrace[HubId].replenished_buffer = Half(new_chain_limits[HubId].recommended_buffer_cap)

====
